---- MODULE Spec2Model ----
(***************************************************************************)
(* CastQuotes (src/src/App.tsx): quote-source resolution and persistence,  *)
(* the multi-channel cast dispatcher and the password-gated admin panel.   *)
(*                                                                         *)
(* Text typed into an input is a sequence of one-character strings, so     *)
(* that String.prototype.trim and .length are computed; values kept in     *)
(* lists and in localStorage are strings.  A localStorage entry is the raw *)
(* text classified by what JSON.parse makes of it.                         *)
(***************************************************************************)
EXTENDS Integers, Sequences, FiniteSets, TLC

(* ---------------------------- bounds ----------------------------------- *)
\* page loads (mounts of App) in one behaviour
MaxLoads == 2
\* admin mutations (add, delete, reset, change password) in one behaviour
MaxEdits == 1
\* admin mutations in one behaviour that starts with a stored list
MaxAdminEdits == 2
\* localStorage.setItem calls that throw in one behaviour
MaxFails == 1

(* ---------------------------- constants -------------------------------- *)
\* src/src/App.tsx:12-37.  The two emoji-only entries are written as ASCII
\* names: only their identity and position matter.
DEFAULT_QUOTES ==
  << "Build in public, cast in style.",
     "One frame can change your feed.",
     "Stay decentralized, stay visible.",
     "Your words, onchain forever.",
     "BASE IS FOR EVERYONE",
     "JESSE IS BALD AND BASED",
     "ETH-erion for life",
     "Miniapp is the name, but bigger job than your PP",
     "BASED META",
     "Mint warplet or die",
     "CLANKER here, CLANKER there, CLANKER everywhere",
     "$NOICE? or NOICE",
     "SATOSHI is building now on BASE",
     "Yo mamma!",
     "CAST or you are GAY",
     "gm to the gmers and gm to the gners",
     "RUGGED onchain",
     "VITALIK GAY",
     "ETH to $10,690",
     "1 + 1 = BASED",
     ":eye::mouth::eye:",
     "NO FEE NOVEMBER",
     "NUT DAILY TRADE DAILY on FARCASTER",
     ":camera::peach:" >>

\* getAdminPw's fallback literal, src/src/App.tsx:80
DEFAULT_PW == "basedfin"

\* the fixed fields of the cross-frame message, src/src/App.tsx:175
APP_SOURCE == "castquotes-miniapp"
OPEN_COMPOSER == "OPEN_COMPOSER"

(* ---------------------------- text ------------------------------------- *)
\* the string a sequence of typed characters denotes
RECURSIVE Str(_)
Str(cs) == IF cs = <<>> THEN "" ELSE Head(cs) \o Str(Tail(cs))

IsSpace(c) == c \in {" ", "\t", "\n"}

RECURSIVE TrimLeft(_)
TrimLeft(cs) ==
  IF cs # <<>> /\ IsSpace(Head(cs)) THEN TrimLeft(Tail(cs)) ELSE cs

RECURSIVE TrimRight(_)
TrimRight(cs) ==
  IF cs # <<>> /\ IsSpace(cs[Len(cs)])
    THEN TrimRight(SubSeq(cs, 1, Len(cs) - 1))
    ELSE cs

\* String.prototype.trim
trim_none(cs) == cs

trim(cs) == TrimRight(TrimLeft(cs))

(* ---------------------------- localStorage entries --------------------- *)
\* getItem gives null ("null"), the empty string ("empty"), text JSON.parse
\* throws on ("malformed"), JSON text of a non-array value ("object") or
\* JSON text of an array of strings ("array").
RawNull == [kind |-> "null", items |-> <<>>]

RawEmpty == [kind |-> "empty", items |-> <<>>]

RawMalformed == [kind |-> "malformed", items |-> <<>>]

RawObject == [kind |-> "object", items |-> <<>>]

JSON_stringify(qs) == [kind |-> "array", items |-> qs]

\* !raw
Falsy(raw) == raw.kind \in {"null", "empty"}

\* JSON.parse: kind "throw" stands for the SyntaxError
JSON_parse(raw) ==
  IF raw.kind \in {"array", "object"} THEN raw
  ELSE [kind |-> "throw", items |-> <<>>]

Array_isArray(v) == v.kind = "array"

\* the admin password entry: absent, or the stored string
NoPw == [present |-> FALSE, val |-> ""]

(* ---------------------------- Quote Store ------------------------------ *)
\* loadQuotes, src/src/App.tsx:58-68
loadQuotes(raw) ==
  IF Falsy(raw) THEN DEFAULT_QUOTES
  ELSE LET parsed == JSON_parse(raw) IN
       IF parsed.kind = "throw" THEN DEFAULT_QUOTES
       ELSE IF Array_isArray(parsed) /\ Len(parsed.items) > 0 THEN parsed.items
       ELSE DEFAULT_QUOTES

\* saveQuotes, src/src/App.tsx:70-76, and the inline setItem of line 133:
\* the entry after the write; ok = FALSE is a setItem that throws (quota),
\* which the catch swallows
saveQuotes_drop(raw, qs, ok) == raw

saveQuotes(raw, qs, ok) == IF ok THEN JSON_stringify(qs) ELSE raw

\* getAdminPw, src/src/App.tsx:78-81:  stored || "basedfin"
getAdminPw_default(pwEntry) == DEFAULT_PW

getAdminPw(pwEntry) ==
  IF pwEntry.present /\ pwEntry.val # "" THEN pwEntry.val ELSE DEFAULT_PW

\* persistAdminPw, src/src/App.tsx:83-89
persistAdminPw(pwEntry, pw, ok) ==
  IF ok THEN [present |-> TRUE, val |-> pw] ELSE pwEntry

\* values of Math.random(), in hundredths: the least one and one near 1
Randoms == {0, 99}

\* pickRandomQuote, src/src/App.tsx:91-94, for the random value r/100:
\* quotes[Math.floor(Math.random() * quotes.length)], counted from 0
pickRandomQuote(qs, r) == qs[((r * Len(qs)) \div 100) + 1]

(* ---------------------------- Remote Source Fetcher -------------------- *)
\* What the network does to the single request: the transport fails
\* ("neterr"), the status is not ok ("status"), res.json() rejects
\* ("badjson"), or the body decodes to a non-array ("object") or an array.
NoRemote == [isNull |-> TRUE, items |-> <<>>]

\* fetchQuotesFromGithub, src/src/App.tsx:46-56
fetchQuotesFromGithub_anystatus(res) ==
  IF res.kind \in {"status", "array"} /\ Len(res.items) > 0
    THEN [isNull |-> FALSE, items |-> res.items]
    ELSE NoRemote

fetchQuotesFromGithub(res) ==
  IF res.kind = "neterr" THEN NoRemote
  ELSE IF res.kind = "status" THEN NoRemote
  ELSE IF res.kind = "badjson" THEN NoRemote
  ELSE IF res.kind = "array" /\ Len(res.items) > 0
         THEN [isNull |-> FALSE, items |-> res.items]
  ELSE NoRemote

(* ---------------------------- Quote Resolver --------------------------- *)
\* step 1 of the resolve effect, src/src/App.tsx:111-125: hit = the stored
\* entry is a non-empty array, which is applied and ends resolve
ResolveLocal_skip(raw) == [hit |-> FALSE, items |-> <<>>]

ResolveLocal(raw) ==
  IF Falsy(raw) THEN [hit |-> FALSE, items |-> <<>>]
  ELSE LET parsed == JSON_parse(raw) IN
       IF parsed.kind = "throw" THEN [hit |-> FALSE, items |-> <<>>]
       ELSE IF Array_isArray(parsed) /\ Len(parsed.items) > 0
              THEN [hit |-> TRUE, items |-> parsed.items]
       ELSE [hit |-> FALSE, items |-> <<>>]

\* steps 2 and 3 after the await, src/src/App.tsx:129-144: which branch runs
ResolveRemote_nocancel(cancelled, remote) ==
  IF ~remote.isNull THEN "remote"
  ELSE IF ~cancelled THEN "default"
  ELSE "discarded"

ResolveRemote_noadopt(cancelled, remote) ==
  IF ~cancelled THEN "default" ELSE "discarded"

ResolveRemote(cancelled, remote) ==
  IF ~cancelled /\ ~remote.isNull THEN "remote"
  ELSE IF ~cancelled THEN "default"
  ELSE "discarded"

(* ---------------------------- Cast Dispatcher -------------------------- *)
\* one call made on a channel
Call(ch, src, ty, text) == [ch |-> ch, source |-> src, type |-> ty, text |-> text]

\* channels 3 and 4, src/src/App.tsx:181-186
ClipboardOrPrompt(text, clip) ==
  IF clip = "ok"
    THEN << Call("clipboard.writeText", "", "", text), Call("alert", "", "", "") >>
    ELSE << Call("clipboard.writeText", "", "", text), Call("prompt", "", "", text) >>

\* channel 2 and what follows it, src/src/App.tsx:173-186
PostOrLater_fallthrough(text, post, clip) ==
  << Call("postMessage", APP_SOURCE, OPEN_COMPOSER, text) >>
    \o ClipboardOrPrompt(text, clip)

PostOrLater(text, post, clip) ==
  IF post = "ok"
    THEN << Call("postMessage", APP_SOURCE, OPEN_COMPOSER, text) >>
    ELSE << Call("postMessage", APP_SOURCE, OPEN_COMPOSER, text) >>
           \o ClipboardOrPrompt(text, clip)

\* tryOpenFarcasterComposer, src/src/App.tsx:161-187.  env.host is what
\* window.farcaster || window.Farcaster offers: nothing ("absent"), an object
\* whose openComposer is not a function ("nofn"), or an openComposer that
\* returns normally ("ok"), throws ("throws") or returns a promise that
\* rejects ("rejects").  The promise is returned from inside the try without
\* an await, so the catch does not see its rejection: the async function's
\* own promise rejects.  log = the calls made, in order; raised = the promise
\* returned to the caller rejects.
tryOpenFarcasterComposer_nostop(text, env) ==
  IF env.host \in {"ok", "rejects", "throws"}
    THEN [log |-> << Call("openComposer", "", "", text) >>
                    \o PostOrLater(text, env.post, env.clip),
          raised |-> FALSE]
    ELSE [log |-> PostOrLater(text, env.post, env.clip), raised |-> FALSE]

tryOpenFarcasterComposer(text, env) ==
  IF env.host \in {"ok", "rejects"}
    THEN [log |-> << Call("openComposer", "", "", text) >>,
          raised |-> (env.host = "rejects")]
  ELSE IF env.host = "throws"
    THEN [log |-> << Call("openComposer", "", "", text) >>
                    \o PostOrLater(text, env.post, env.clip),
          raised |-> FALSE]
  ELSE [log |-> PostOrLater(text, env.post, env.clip), raised |-> FALSE]

(* ---------------------------- Admin Session ---------------------------- *)
\* the comparison of tryUnlock, src/src/App.tsx:203-208: the next authStep
UnlockStep_any(pwInput, pw) == "unlocked"

UnlockStep(pwInput, pw) == IF Str(pwInput) = pw THEN "unlocked" ELSE "locked"

(* ---------------------------- inputs ----------------------------------- *)
\* what may be in the quote-list entry when the first page load starts
StoredList == << "stored one", "stored two" >>

InitialEntries ==
  { RawNull, RawEmpty, RawMalformed, RawObject,
    JSON_stringify(<<>>), JSON_stringify(StoredList) }

\* what the network may do to the request; items is what the body decodes
\* to, which for a status that is not ok nobody reads
FetchResults ==
  { [kind |-> "neterr",  items |-> <<>>],
    [kind |-> "status",  items |-> << "remote one", "remote two" >>],
    [kind |-> "badjson", items |-> <<>>],
    [kind |-> "object",  items |-> <<>>],
    [kind |-> "array",   items |-> <<>>],
    [kind |-> "array",   items |-> << "remote one", "remote two" >>] }

\* the rows of the admin list whose Delete button is clicked, counted from 0
DelRows == {0, 1}

\* what may be typed into the password input
PwTexts ==
  { << "b", "a", "s", "e", "d", "f", "i", "n" >>,
    << "a", "b", "c", "d" >>,
    << " ", "a", "b", "c", "d", " " >>,
    << " ", "a", "b", " " >> }

\* what may be typed into the new-quote input
QuoteTexts == { << " ", " " >>, << " ", "g", "m", " " >> }

\* what the host page, the parent frame and the clipboard do to one dispatch
CastEnvs ==
  [ host : {"absent", "nofn", "ok", "throws", "rejects"},
    post : {"ok", "throws"},
    clip : {"ok", "fails"} ]

(* ---------------------------- state ------------------------------------ *)
VARIABLES
  lsQuotes,      \* localStorage[STORAGE_KEY]
  lsPw,          \* localStorage[ADMIN_PW_KEY]
  mounted,       \* App is mounted
  quotes,        \* useState quotes
  quote,         \* useState quote
  adminOpen,     \* useState adminOpen
  authStep,      \* useState authStep
  pwInput,       \* useState pwInput
  newQuoteText,  \* useState newQuoteText
  adminPw,       \* useState of line 103, written by setAdminPwState
  run,           \* the resolve effect of the mounted App
  stale,         \* pending fetches of resolve effects whose App is unmounted
  discarded,     \* the list such a fetch gave, if the step just taken
                 \* completed one
  loads,         \* number of page loads so far
  edits,         \* number of admin mutations still to be made
  fails,         \* number of steps whose setItem calls threw so far
  pristine,      \* history: the first load found no usable stored list, every
                 \* load since fell back to the defaults, no admin mutation
  matched,       \* history: a submit matched the secret since the last open
  cast           \* what the step just taken dispatched

vars == << lsQuotes, lsPw, mounted, quotes, quote, adminOpen, authStep,
           pwInput, newQuoteText, adminPw, run, stale, discarded, loads,
           edits, fails, pristine, matched, cast >>

\* run.pc: "none" (no App mounted), "fetching" (awaiting the fetch), "done";
\* run.requests: network requests issued; run.outcome: the source resolve
\* applied; run.remote: what the fetch gave; run.edited: an admin mutation of
\* the list was made during this load.  The closure's cancelled flag is
\* FALSE exactly while the App is mounted.
NoRun == [pc |-> "none", requests |-> 0, outcome |-> "none",
          remote |-> NoRemote, edited |-> FALSE]

\* a step whose setItem calls succeed (ok) or throw and are swallowed
Write(ok) ==
  /\ ok \/ fails < MaxFails
  /\ fails' = IF ok THEN fails ELSE fails + 1

\* a step that calls no setItem
NoWrite(ok) == ok /\ UNCHANGED fails

\* no cast click in the step just taken
NoCast == [clicked |-> FALSE, env |-> [host |-> "", post |-> "", clip |-> ""],
           text |-> "", log |-> <<>>, raised |-> FALSE]

Init ==
  /\ lsQuotes \in InitialEntries
  /\ lsPw = NoPw
  /\ mounted = FALSE
  /\ quotes = <<>>
  /\ quote = ""
  /\ adminOpen = FALSE
  /\ authStep = "locked"
  /\ pwInput = <<>>
  /\ newQuoteText = <<>>
  /\ adminPw = ""
  /\ run = NoRun
  /\ stale = 0
  /\ discarded = <<>>
  /\ loads = 0
  /\ edits = MaxEdits
  /\ fails = 0
  /\ pristine = TRUE
  /\ matched = FALSE
  /\ cast = NoCast

(* ---------------------------- page load -------------------------------- *)
\* Mount of App, src/src/App.tsx:96-158: the useState initializers, the
\* resolve effect up to its first await, and the persist effect, which runs
\* after the first render with the initial quotes and again after the
\* render that setQuotes of step 1 causes.  ok: the setItem calls succeed;
\* r: the value of Math.random().
Load(ok, r) ==
  /\ ~mounted
  /\ loads < MaxLoads
  /\ Write(ok)
  /\ LET initial == loadQuotes(lsQuotes)
         local   == ResolveLocal(lsQuotes)
     IN
     /\ mounted' = TRUE
     /\ loads' = loads + 1
     /\ adminOpen' = FALSE
     /\ authStep' = "locked"
     /\ pwInput' = <<>>
     /\ newQuoteText' = <<>>
     /\ adminPw' = getAdminPw(lsPw)
     /\ matched' = FALSE
     /\ IF local.hit
          THEN /\ quotes' = local.items
               /\ quote' = pickRandomQuote(local.items, r)
               /\ lsQuotes' = saveQuotes(saveQuotes(lsQuotes, initial, ok),
                                         local.items, ok)
               /\ run' = [pc |-> "done", requests |-> 0,
                          outcome |-> "stored", remote |-> NoRemote,
                          edited |-> FALSE]
               /\ pristine' = FALSE
          ELSE /\ r = 0
               /\ quotes' = initial
               /\ quote' = ""
               /\ lsQuotes' = saveQuotes(lsQuotes, initial, ok)
               /\ run' = [pc |-> "fetching", requests |-> 1,
                          outcome |-> "pending", remote |-> NoRemote,
                          edited |-> FALSE]
               /\ pristine' = pristine
  /\ cast' = NoCast
  /\ discarded' = <<>>
  /\ UNCHANGED << lsPw, stale, edits >>

\* The effect's cleanup, src/src/App.tsx:150-152: the view is torn down and
\* its state is gone; a pending fetch stays pending, its closure's flag set.
Unmount ==
  /\ mounted
  /\ mounted' = FALSE
  /\ stale' = IF run.pc = "fetching" THEN stale + 1 ELSE stale
  /\ pristine' = (pristine /\ run.pc = "done")
  /\ run' = NoRun
  /\ quotes' = <<>>
  /\ quote' = ""
  /\ adminOpen' = FALSE
  /\ authStep' = "locked"
  /\ pwInput' = <<>>
  /\ newQuoteText' = <<>>
  /\ adminPw' = ""
  /\ matched' = FALSE
  /\ cast' = NoCast
  /\ discarded' = <<>>
  /\ UNCHANGED << lsQuotes, lsPw, loads, edits, fails >>

\* The fetch of the mounted App completes with res and resolve resumes after
\* the await, src/src/App.tsx:128-144; the persist effect follows the render
\* that setQuotes causes.
FetchDone(res, ok, r) ==
  /\ mounted
  /\ run.pc = "fetching"
  /\ LET remote == fetchQuotesFromGithub(res)
         branch == ResolveRemote(~mounted, remote)
     IN
     /\ run' = [run EXCEPT !.pc = "done", !.outcome = branch,
                           !.remote = remote]
     /\ pristine' = (pristine /\ branch = "default")
     /\ IF branch = "remote"
          THEN /\ Write(ok)
               /\ quotes' = remote.items
               /\ quote' = pickRandomQuote(remote.items, r)
               /\ lsQuotes' = saveQuotes(saveQuotes(lsQuotes, remote.items, ok),
                                         remote.items, ok)
        ELSE /\ branch = "default"
             /\ Write(ok)
             /\ quotes' = DEFAULT_QUOTES
             /\ quote' = pickRandomQuote(DEFAULT_QUOTES, r)
             /\ lsQuotes' = saveQuotes(lsQuotes, DEFAULT_QUOTES, ok)
  /\ cast' = NoCast
  /\ discarded' = <<>>
  /\ UNCHANGED << lsPw, mounted, adminOpen, authStep, pwInput, newQuoteText,
                  adminPw, stale, loads, edits, matched >>

\* The fetch of an unmounted App completes with res: the same code,
\* src/src/App.tsx:128-144, with cancelled = TRUE.  React drops a state
\* update of an unmounted component, so only the setItem of line 133 could
\* still act.
StaleFetchDone(res, ok) ==
  /\ stale > 0
  /\ stale' = stale - 1
  /\ discarded' = fetchQuotesFromGithub(res).items
  /\ LET remote == fetchQuotesFromGithub(res)
         branch == ResolveRemote(TRUE, remote)
     IN
     IF branch = "remote"
       THEN /\ Write(ok)
            /\ lsQuotes' = saveQuotes(lsQuotes, remote.items, ok)
       ELSE /\ NoWrite(ok)
            /\ UNCHANGED lsQuotes
  /\ cast' = NoCast
  /\ UNCHANGED << lsPw, mounted, quotes, quote, adminOpen, authStep, pwInput,
                  newQuoteText, adminPw, run, loads, edits, pristine,
                  matched >>

(* ---------------------------- cast button ------------------------------ *)
\* onCastClick, src/src/App.tsx:189-192; the await of line 191 passes a
\* rejection of tryOpenFarcasterComposer on to the handler's own promise
onCastClick_nogate(env) ==
  /\ mounted
  /\ cast' = LET r == tryOpenFarcasterComposer(quote, env) IN
             [clicked |-> TRUE, env |-> env, text |-> quote,
              log |-> r.log, raised |-> r.raised]
  /\ discarded' = <<>>
  /\ UNCHANGED << lsQuotes, lsPw, mounted, quotes, quote, adminOpen, authStep,
                  pwInput, newQuoteText, adminPw, run, stale, loads, edits,
                  fails, pristine, matched >>

onCastClick(env) ==
  /\ mounted
  /\ cast' = IF quote = ""
               THEN [clicked |-> TRUE, env |-> env, text |-> quote,
                     log |-> <<>>, raised |-> FALSE]
               ELSE LET r == tryOpenFarcasterComposer(quote, env) IN
                    [clicked |-> TRUE, env |-> env, text |-> quote,
                     log |-> r.log, raised |-> r.raised]
  /\ discarded' = <<>>
  /\ UNCHANGED << lsQuotes, lsPw, mounted, quotes, quote, adminOpen, authStep,
                  pwInput, newQuoteText, adminPw, run, stale, loads, edits,
                  fails, pristine, matched >>

(* ---------------------------- admin panel ------------------------------ *)
\* openAdmin, src/src/App.tsx:195-199 (the gear button, line 265)
openAdmin_keep ==
  /\ mounted
  /\ pwInput' = <<>>
  /\ adminOpen' = TRUE
  /\ matched' = FALSE
  /\ cast' = NoCast
  /\ discarded' = <<>>
  /\ UNCHANGED << lsQuotes, lsPw, mounted, quotes, quote, authStep,
                  newQuoteText, adminPw, run, stale, loads, edits, fails,
                  pristine >>

openAdmin ==
  /\ mounted
  /\ pwInput' = <<>>
  /\ authStep' = "locked"
  /\ adminOpen' = TRUE
  /\ matched' = FALSE
  /\ cast' = NoCast
  /\ discarded' = <<>>
  /\ UNCHANGED << lsQuotes, lsPw, mounted, quotes, quote, newQuoteText,
                  adminPw, run, stale, loads, edits, fails, pristine >>

\* the close button, src/src/App.tsx:275
closeAdmin ==
  /\ mounted /\ adminOpen
  /\ adminOpen' = FALSE
  /\ cast' = NoCast
  /\ discarded' = <<>>
  /\ UNCHANGED << lsQuotes, lsPw, mounted, quotes, quote, authStep, pwInput,
                  newQuoteText, adminPw, run, stale, loads, edits, fails,
                  pristine, matched >>

\* the unlocked branch of the modal, src/src/App.tsx:270-290, is rendered:
\* its inputs and buttons are the only callers of the four handlers below
UnlockedPanelShown_locked == mounted /\ adminOpen

UnlockedPanelShown == mounted /\ adminOpen /\ authStep = "unlocked"

\* onChange of either password input, src/src/App.tsx:283 and 309
typePw(t) ==
  /\ mounted /\ adminOpen
  /\ pwInput' = t
  /\ cast' = NoCast
  /\ discarded' = <<>>
  /\ UNCHANGED << lsQuotes, lsPw, mounted, quotes, quote, adminOpen, authStep,
                  newQuoteText, adminPw, run, stale, loads, edits, fails,
                  pristine, matched >>

\* onChange of the new-quote input, src/src/App.tsx:294
typeNewQuote(t) ==
  /\ UnlockedPanelShown
  /\ newQuoteText' = t
  /\ cast' = NoCast
  /\ discarded' = <<>>
  /\ UNCHANGED << lsQuotes, lsPw, mounted, quotes, quote, adminOpen, authStep,
                  pwInput, adminPw, run, stale, loads, edits, fails, pristine,
                  matched >>

\* tryUnlock, src/src/App.tsx:201-209 (the Unlock button, line 285, is
\* rendered while the panel is open and locked)
tryUnlock ==
  /\ mounted /\ adminOpen /\ authStep = "locked"
  /\ LET pw == getAdminPw(lsPw) IN
     /\ authStep' = UnlockStep(pwInput, pw)
     /\ pwInput' = IF authStep' = "unlocked" THEN <<>> ELSE pwInput
     /\ matched' = (matched \/ Str(pwInput) = pw)
  /\ cast' = NoCast
  /\ discarded' = <<>>
  /\ UNCHANGED << lsQuotes, lsPw, mounted, quotes, quote, adminOpen,
                  newQuoteText, adminPw, run, stale, loads, edits, fails,
                  pristine >>

\* handleAddQuote, src/src/App.tsx:211-218, and the persist effect
handleAddQuote(ok) ==
  /\ UnlockedPanelShown
  /\ LET t == trim(newQuoteText) IN
     IF t = <<>>
       THEN /\ NoWrite(ok)
            /\ UNCHANGED << lsQuotes, quotes, newQuoteText, run, edits,
                            pristine >>
       ELSE /\ edits > 0
            /\ Write(ok)
            /\ quotes' = << Str(t) >> \o quotes
            /\ newQuoteText' = <<>>
            /\ lsQuotes' = saveQuotes(lsQuotes, quotes', ok)
            /\ run' = [run EXCEPT !.edited = TRUE]
            /\ pristine' = FALSE
            /\ edits' = edits - 1
  /\ cast' = NoCast
  /\ discarded' = <<>>
  /\ UNCHANGED << lsPw, mounted, quote, adminOpen, authStep, pwInput, adminPw,
                  stale, loads, matched >>

\* Array.prototype.splice(idx, 1) on a copy, idx counted from 0
splice1_last(qs, idx) == SubSeq(qs, 1, Len(qs) - 1)

splice1(qs, idx) ==
  [ k \in 1 .. (Len(qs) - 1) |-> IF k <= idx THEN qs[k] ELSE qs[k + 1] ]

\* handleDeleteQuote, src/src/App.tsx:220-226, and the persist effect; the
\* Delete button of row idx, line 302
handleDeleteQuote(idx, confirmed, ok) ==
  /\ UnlockedPanelShown
  /\ idx \in 0 .. (Len(quotes) - 1)
  /\ IF ~confirmed
       THEN /\ NoWrite(ok)
            /\ UNCHANGED << lsQuotes, quotes, run, edits, pristine >>
       ELSE /\ edits > 0
            /\ Write(ok)
            /\ quotes' = splice1(quotes, idx)
            /\ lsQuotes' = saveQuotes(lsQuotes, quotes', ok)
            /\ run' = [run EXCEPT !.edited = TRUE]
            /\ pristine' = FALSE
            /\ edits' = edits - 1
  /\ cast' = NoCast
  /\ discarded' = <<>>
  /\ UNCHANGED << lsPw, mounted, quote, adminOpen, authStep, pwInput,
                  newQuoteText, adminPw, stale, loads, matched >>

\* handleSetPw, src/src/App.tsx:228-238
handleSetPw(ok) ==
  /\ UnlockedPanelShown
  /\ LET t == trim(pwInput) IN
     IF Len(t) < 4
       THEN /\ NoWrite(ok)
            /\ UNCHANGED << lsPw, pwInput, adminPw, edits >>
       ELSE /\ edits > 0
            /\ Write(ok)
            /\ lsPw' = persistAdminPw(lsPw, Str(t), ok)
            /\ adminPw' = Str(t)
            /\ pwInput' = <<>>
            /\ edits' = edits - 1
  /\ cast' = NoCast
  /\ discarded' = <<>>
  /\ UNCHANGED << lsQuotes, mounted, quotes, quote, adminOpen, authStep,
                  newQuoteText, run, stale, loads, pristine, matched >>

\* handleResetToDefault, src/src/App.tsx:240-246, and the persist effect
handleResetToDefault(confirmed, ok) ==
  /\ UnlockedPanelShown
  /\ IF ~confirmed
       THEN /\ NoWrite(ok)
            /\ UNCHANGED << lsQuotes, quotes, run, edits, pristine >>
       ELSE /\ edits > 0
            /\ Write(ok)
            /\ quotes' = DEFAULT_QUOTES
            /\ lsQuotes' = saveQuotes(saveQuotes(lsQuotes, DEFAULT_QUOTES, ok),
                                      quotes', ok)
            /\ run' = [run EXCEPT !.edited = TRUE]
            /\ pristine' = FALSE
            /\ edits' = edits - 1
  /\ cast' = NoCast
  /\ discarded' = <<>>
  /\ UNCHANGED << lsPw, mounted, quote, adminOpen, authStep, pwInput,
                  newQuoteText, adminPw, stale, loads, matched >>

(* ---------------------------- specification ---------------------------- *)
\* The page lifecycle and the admin panel.
Next ==
  \/ \E ok \in BOOLEAN, r \in Randoms : Load(ok, r)
  \/ Unmount
  \/ \E res \in FetchResults, ok \in BOOLEAN, r \in Randoms :
       FetchDone(res, ok, r)
  \/ \E res \in FetchResults, ok \in BOOLEAN : StaleFetchDone(res, ok)
  \/ openAdmin
  \/ closeAdmin
  \/ \E t \in PwTexts : typePw(t)
  \/ \E t \in QuoteTexts : typeNewQuote(t)
  \/ tryUnlock
  \/ \E ok \in BOOLEAN : handleAddQuote(ok)
  \/ \E idx \in DelRows, c \in BOOLEAN, ok \in BOOLEAN :
       handleDeleteQuote(idx, c, ok)
  \/ \E ok \in BOOLEAN : handleSetPw(ok)
  \/ \E c \in BOOLEAN, ok \in BOOLEAN : handleResetToDefault(c, ok)

Spec == Init /\ [][Next]_vars

\* The cast button reads quote and writes only cast, which no other handler
\* reads: the dispatcher is explored with the page lifecycle alone.
NextCast ==
  \/ \E ok \in BOOLEAN, r \in Randoms : Load(ok, r)
  \/ Unmount
  \/ \E res \in FetchResults, ok \in BOOLEAN, r \in Randoms :
       FetchDone(res, ok, r)
  \/ \E res \in FetchResults, ok \in BOOLEAN : StaleFetchDone(res, ok)
  \/ \E env \in CastEnvs : onCastClick(env)

SpecCast == Init /\ [][NextCast]_vars

\* A browser whose store already holds a list when the first page load
\* starts: the admin session is explored with more mutations.
InitAdmin ==
  /\ lsQuotes = JSON_stringify(StoredList)
  /\ lsPw = NoPw
  /\ mounted = FALSE
  /\ quotes = <<>>
  /\ quote = ""
  /\ adminOpen = FALSE
  /\ authStep = "locked"
  /\ pwInput = <<>>
  /\ newQuoteText = <<>>
  /\ adminPw = ""
  /\ run = NoRun
  /\ stale = 0
  /\ discarded = <<>>
  /\ loads = 0
  /\ edits = MaxAdminEdits
  /\ fails = 0
  /\ pristine = TRUE
  /\ matched = FALSE
  /\ cast = NoCast

SpecAdmin == InitAdmin /\ [][Next]_vars

\* The cast button beside the admin panel, with every write succeeding and
\* the channels that raise left to SpecCast.
QuoteEnvs == { e \in CastEnvs : e.host \in {"absent", "ok"} /\ e.clip = "ok" }

InitQuote ==
  /\ lsQuotes \in { RawNull, JSON_stringify(StoredList) }
  /\ lsPw = NoPw
  /\ mounted = FALSE
  /\ quotes = <<>>
  /\ quote = ""
  /\ adminOpen = FALSE
  /\ authStep = "locked"
  /\ pwInput = <<>>
  /\ newQuoteText = <<>>
  /\ adminPw = ""
  /\ run = NoRun
  /\ stale = 0
  /\ discarded = <<>>
  /\ loads = 0
  /\ edits = MaxEdits
  /\ fails = MaxFails
  /\ pristine = TRUE
  /\ matched = FALSE
  /\ cast = NoCast

NextQuote ==
  \/ Next
  \/ \E env \in QuoteEnvs : onCastClick(env)

SpecQuote == InitQuote /\ [][NextQuote]_vars

TypeOK ==
  /\ mounted \in BOOLEAN
  /\ adminOpen \in BOOLEAN
  /\ authStep \in {"locked", "unlocked"}
  /\ edits \in 0 .. MaxAdminEdits
  /\ loads \in 0 .. MaxLoads
  /\ stale \in 0 .. MaxLoads
  /\ fails \in 0 .. MaxFails

(* ---------------------------- properties ------------------------------- *)
\* the entry holds a non-empty stored list
HasStoredList(raw) == raw.kind = "array" /\ raw.items # <<>>

Members(qs) == { qs[k] : k \in 1 .. Len(qs) }

\* the step is a page load
IsLoad == ~mounted /\ mounted'

\* the step completes the fetch of the mounted App, which is not torn down
IsFetchDone == mounted /\ mounted' /\ run.pc = "fetching" /\ run'.pc = "done"

\* C1: a load that found no usable stored list and whose fetch gave nothing
\* ends with the built-in defaults in memory and the stored quote list still
\* absent, so long as no admin mutation was made during the load.
C1_DefaultFallbackNotPersisted ==
  (mounted /\ run.pc = "done" /\ run.outcome = "default" /\ ~run.edited)
    => (quotes = DEFAULT_QUOTES /\ ~HasStoredList(lsQuotes))

C3_RemoteAdoptedAndStored ==
  [][ (IsFetchDone /\ ~run'.remote.isNull)
        => /\ quotes' = run'.remote.items
           /\ lsQuotes' = JSON_stringify(run'.remote.items) ]_vars

\* C3 as amended: ... the in-memory list is R and the displayed quote a
\* member of R; the store holds R if the write succeeds and is left as it
\* was if the write throws.
C3_RemoteAdoptedStoredIfWritten ==
  [][ (IsFetchDone /\ ~run'.remote.isNull)
        => /\ quotes' = run'.remote.items
           /\ quote' \in Members(run'.remote.items)
           /\ run'.outcome = "remote"
           /\ fails' = fails => lsQuotes' = JSON_stringify(run'.remote.items)
           /\ fails' # fails => lsQuotes' = lsQuotes ]_vars

C3_Witness ==
  /\ mounted /\ run.pc = "done" /\ run.outcome = "remote" /\ ~run.edited
  /\ ~run.remote.isNull /\ quotes = run.remote.items
  /\ lsQuotes = JSON_stringify(run.remote.items)

\* C4: starting from an empty store and with no admin mutation, after loads
\* that all fell back to the defaults the store is still without a stored
\* list when the next load starts (so that load fetches again).
C4_FallbackNotAdoptedAcrossLoads ==
  (~mounted /\ loads >= 1 /\ pristine) => ~HasStoredList(lsQuotes)

\* C5: a fetch that completes after its view was torn down changes neither
\* the in-memory list, nor the displayed quote, nor the stored list.
C5_CancelledResultDiscarded ==
  [][ (stale' < stale) => UNCHANGED << quotes, quote, lsQuotes >> ]_vars

C5_Witness ==
  /\ discarded # <<>>
  /\ lsQuotes # JSON_stringify(discarded)
  /\ mounted /\ run.pc = "fetching"

\* the click dispatched: the displayed quote was not empty
Dispatched == cast.clicked /\ cast.text # ""

\* the calls made on channel ch
CallsOn(ch) == { k \in 1 .. Len(cast.log) : cast.log[k].ch = ch }

\* openComposer is offered as a function
HostPresent == cast.env.host \in {"ok", "throws", "rejects"}

OnlyOpenComposer ==
  cast.log = << [ch |-> "openComposer", source |-> "", type |-> "",
                 text |-> cast.text] >>

\* C6: whatever the channels do, the dispatch awaited by the cast-button
\* handler completes normally.
C6_DispatchNeverRaises == cast.clicked => ~cast.raised

\* C7 as stated: whenever openComposer is offered, dispatch calls it once
\* with the quote text and makes no other call.
C7_HostPresentStops == (Dispatched /\ HostPresent) => OnlyOpenComposer

\* C7 as amended: whenever openComposer is offered and its call does not
\* throw synchronously, dispatch calls it once with the quote text and makes
\* no other call.
C7_HostPresentNoThrowStops ==
  (Dispatched /\ cast.env.host \in {"ok", "rejects"}) => OnlyOpenComposer

C7_Witness ==
  /\ Dispatched /\ cast.env.host = "ok" /\ OnlyOpenComposer
  /\ cast.text = StoredList[1]

\* C8: with no openComposer offered, dispatch posts exactly one message
\* {source, type "OPEN_COMPOSER", text} and posts it first; it tries the
\* clipboard only if the post throws, shows the notice only if the clipboard
\* write succeeds and the prompt only if it fails; and no call follows a
\* channel that succeeded.
C8_HostAbsentOrdering ==
  /\ (Dispatched /\ cast.env.host = "ok") => Len(cast.log) = 1
  /\ (Dispatched /\ ~HostPresent) =>
      /\ Cardinality(CallsOn("postMessage")) = 1
      /\ cast.log[1] = [ch |-> "postMessage", source |-> APP_SOURCE,
                        type |-> OPEN_COMPOSER, text |-> cast.text]
      /\ CallsOn("openComposer") = {}
      /\ CallsOn("clipboard.writeText") # {} => cast.env.post = "throws"
      /\ CallsOn("alert") # {}
           => (CallsOn("clipboard.writeText") # {} /\ cast.env.clip = "ok")
      /\ CallsOn("prompt") # {}
           => (CallsOn("clipboard.writeText") # {} /\ cast.env.clip = "fails")
      /\ cast.env.post = "ok" => Len(cast.log) = 1
      /\ (cast.env.post = "throws" /\ cast.env.clip = "ok")
           => (Len(cast.log) = 3 /\ CallsOn("prompt") = {})
      /\ Cardinality(CallsOn("clipboard.writeText")) <= 1

C8_Witness ==
  /\ Dispatched /\ cast.env.host = "absent" /\ cast.env.post = "throws"
  /\ cast.env.clip = "fails"
  /\ Len(cast.log) = 3
  /\ cast.log[2].ch = "clipboard.writeText" /\ cast.log[3].ch = "prompt"

\* C9: the session goes from locked to unlocked only in a step taken with
\* the panel open and the password input equal to the secret the store
\* returns; and unlocked implies that a submit matched since the last open.
C9_AdminGate ==
  /\ [](authStep = "unlocked" => matched)
  /\ [][ (authStep = "locked" /\ authStep' = "unlocked")
           => /\ mounted /\ adminOpen
              /\ Str(pwInput) = getAdminPw(lsPw)
              /\ lsPw' = lsPw ]_vars

C9_Witness ==
  /\ adminOpen /\ authStep = "unlocked" /\ matched
  /\ lsPw.present /\ lsPw.val = "abcd" /\ getAdminPw(lsPw) # DEFAULT_PW

\* C10: the step that opens the admin panel, and the step that loads the
\* page, leave the session locked, whatever it was before.
C10_LockedOnEveryOpen ==
  [][ /\ (~adminOpen /\ adminOpen') => authStep' = "locked"
      /\ IsLoad => (authStep' = "locked" /\ ~adminOpen') ]_vars

C10_Witness ==
  /\ mounted /\ adminOpen /\ authStep = "locked" /\ run.edited

\* the step is taken within one page load and completes no fetch
IsPanelStep == mounted /\ mounted' /\ run'.pc = run.pc

\* C11: a step within a page load that changes the in-memory list, the
\* stored list or the stored secret, other than the completion of the fetch,
\* is taken with the panel open and the session unlocked and leaves them
\* so; and the stored secret changes in no step but one that stores the
\* trimmed password input, of length at least 4, from such a state.
C11_GatedMutations ==
  [][ /\ (IsPanelStep /\ << quotes, lsQuotes, lsPw >>' # << quotes, lsQuotes, lsPw >>)
          => /\ adminOpen /\ authStep = "unlocked"
             /\ adminOpen' /\ authStep' = "unlocked"
      /\ (lsPw' # lsPw)
          => /\ mounted /\ adminOpen /\ authStep = "unlocked"
             /\ Len(trim(pwInput)) >= 4
             /\ lsPw' = [present |-> TRUE, val |-> Str(trim(pwInput))]
             /\ UNCHANGED << quotes, lsQuotes >> ]_vars

C11_Witness ==
  /\ mounted /\ adminOpen /\ authStep = "unlocked"
  /\ lsPw = [present |-> TRUE, val |-> "abcd"]
  /\ quotes = << "gm" >> \o StoredList
  /\ lsQuotes = JSON_stringify(quotes)

\* the step is an add whose input is not empty after trimming
IsAdd == (\E ok \in BOOLEAN : handleAddQuote(ok)) /\ trim(newQuoteText) # <<>>

\* the step is a confirmed delete of row idx
IsDelete(idx) == \E ok \in BOOLEAN : handleDeleteQuote(idx, TRUE, ok)

\* C12: an add whose input Q is not empty after trimming puts the trimmed Q
\* at index 0 with the elements of the list L following in their order, a
\* confirmed delete of index 0 removes the first element and keeps the
\* others in their order, so that the delete applied to the list the add
\* made gives L again.
C12_AddDeleteRoundTrip ==
  [][ /\ IsAdd
          => /\ Len(quotes') = Len(quotes) + 1
             /\ quotes'[1] = Str(trim(newQuoteText))
             /\ \A k \in 1 .. Len(quotes) : quotes'[k + 1] = quotes[k]
             /\ splice1(quotes', 0) = quotes
      /\ IsDelete(0)
          => /\ Len(quotes') = Len(quotes) - 1
             /\ \A k \in 1 .. Len(quotes') : quotes'[k] = quotes[k + 1] ]_vars

\* an add followed by a delete, both in the first load: the list is the
\* stored list again
C12_Witness ==
  /\ mounted /\ loads = 1 /\ run.edited /\ edits = MaxAdminEdits - 2
  /\ lsPw = NoPw
  /\ quotes = StoredList /\ lsQuotes = JSON_stringify(StoredList)

\* the step is a confirmed reset
IsReset == \E ok \in BOOLEAN : handleResetToDefault(TRUE, ok)

\* C13 as stated: a confirmed reset, after whatever adds and deletes, makes
\* the in-memory list the 24 built-in defaults and the stored list the same.
C13_ResetStoresDefaults ==
  [][ IsReset => /\ quotes' = DEFAULT_QUOTES
                 /\ lsQuotes' = JSON_stringify(DEFAULT_QUOTES) ]_vars

\* C13 as amended: a confirmed reset makes the in-memory list the 24
\* built-in defaults; the store holds that list if the write succeeds and is
\* left as it was if the write throws; and a page load that finds the
\* defaults in the store resolves to them without a network request.
C13_ResetStoresDefaultsIfWritten ==
  [][ /\ IsReset
          => /\ quotes' = DEFAULT_QUOTES
             /\ Len(quotes') = 24
             /\ fails' = fails => lsQuotes' = JSON_stringify(DEFAULT_QUOTES)
             /\ fails' # fails => lsQuotes' = lsQuotes
      /\ (IsLoad /\ lsQuotes = JSON_stringify(DEFAULT_QUOTES))
          => /\ quotes' = DEFAULT_QUOTES
             /\ quote' \in Members(DEFAULT_QUOTES)
             /\ run'.pc = "done" /\ run'.outcome = "stored"
             /\ run'.requests = 0 ]_vars

\* an add or a delete, a reset, and the next load: the defaults, from the
\* store
C13_Witness ==
  /\ mounted /\ loads = 2 /\ edits = MaxAdminEdits - 2 /\ lsPw = NoPw
  /\ run.outcome = "stored" /\ run.requests = 0
  /\ quotes = DEFAULT_QUOTES /\ lsQuotes = JSON_stringify(DEFAULT_QUOTES)

\* the step is a change-secret
IsSetPw == \E ok \in BOOLEAN : handleSetPw(ok)

\* the step is a password submit
IsSubmit == tryUnlock

\* C14: a change-secret whose trimmed input has at least 4 characters and
\* whose write succeeds stores the trimmed input as the secret; no other
\* step, a reload included, changes the stored secret; and once a secret is
\* stored, a submit unlocks if and only if its input equals it, so the
\* previous secret, when different, unlocks no more.
C14_SecretUpdate ==
  [][ /\ (IsSetPw /\ Len(trim(pwInput)) >= 4 /\ fails' = fails)
          => lsPw' = [present |-> TRUE, val |-> Str(trim(pwInput))]
      /\ ~IsSetPw => lsPw' = lsPw
      /\ (IsSubmit /\ lsPw.present)
          => /\ (authStep' = "unlocked") = (Str(pwInput) = lsPw.val)
             /\ (lsPw.val # DEFAULT_PW /\ Str(pwInput) = DEFAULT_PW)
                  => authStep' = "locked" ]_vars

\* the secret was changed from the default, the page reloaded, and a submit
\* of the new secret unlocked
C14_Witness ==
  /\ mounted /\ loads = 2 /\ adminOpen /\ authStep = "unlocked" /\ matched
  /\ lsPw = [present |-> TRUE, val |-> "abcd"] /\ adminPw = "abcd"

\* C15: within a page load the secret kept in memory decides, whether or not
\* the write of the change-secret succeeded: a submit unlocks if and only
\* if its input equals the secret last set in memory.
C15_InMemorySecretAuthoritative ==
  [][ IsSubmit => ((authStep' = "unlocked") = (Str(pwInput) = adminPw)) ]_vars

\* C16: while the page is loaded the in-memory list is never empty.
C16_ListNeverEmpty == mounted => quotes # <<>>

\* the step is an add, a confirmed delete or a confirmed reset
IsListEdit == IsAdd \/ (\E idx \in DelRows : IsDelete(idx)) \/ IsReset

\* C17: after an add, a confirmed delete or a confirmed reset whose write
\* succeeds the stored list equals the in-memory list; and the page load
\* that finds the list so stored resolves to exactly that list.
C17_PersistedAfterMutation ==
  [][ /\ (IsListEdit /\ fails' = fails) => lsQuotes' = JSON_stringify(quotes')
      /\ (IsLoad /\ lsQuotes.kind = "array")
          => (quotes' = lsQuotes.items /\ run'.pc = "done") ]_vars

\* the positions of cs that hold no white space
Visible(cs) == { k \in 1 .. Len(cs) : ~IsSpace(cs[k]) }

\* the number of characters from the first to the last of them
VisibleSpan(cs) ==
  IF Visible(cs) = {} THEN 0
  ELSE LET first == CHOOSE k \in Visible(cs) : \A j \in Visible(cs) : k <= j
           last  == CHOOSE k \in Visible(cs) : \A j \in Visible(cs) : j <= k
       IN last - first + 1

\* the step is an add of white space only, a declined delete, a declined
\* reset, a change-secret of fewer than 4 characters between the white
\* space around them, or a submit of a text that is not the secret
IsRejected ==
  \/ (\E ok \in BOOLEAN : handleAddQuote(ok)) /\ Visible(newQuoteText) = {}
  \/ \E idx \in DelRows, ok \in BOOLEAN : handleDeleteQuote(idx, FALSE, ok)
  \/ \E ok \in BOOLEAN : handleResetToDefault(FALSE, ok)
  \/ IsSetPw /\ VisibleSpan(pwInput) < 4
  \/ IsSubmit /\ Str(pwInput) # getAdminPw(lsPw)

\* C18: a rejected step changes neither the in-memory list, nor the stored
\* list, nor the stored secret, nor the lock state, and writes nothing; and
\* a submit of the secret the store returns, which no rejected step
\* changed, unlocks.
C18_RejectedInputNoMutation ==
  [][ /\ IsRejected
          => /\ UNCHANGED << quotes, lsQuotes, lsPw, adminPw, authStep,
                             adminOpen, quote, fails >>
             /\ getAdminPw(lsPw') = getAdminPw(lsPw)
      /\ (IsSubmit /\ Str(pwInput) = getAdminPw(lsPw))
          => authStep' = "unlocked" ]_vars

\* the unlocked panel with a blank new-quote input and a too short
\* password input, nothing mutated
C18_Witness ==
  /\ UnlockedPanelShown
  /\ newQuoteText = << " ", " " >> /\ pwInput = << " ", "a", "b", " " >>
  /\ quotes = StoredList /\ lsQuotes = JSON_stringify(StoredList)
  /\ lsPw = NoPw /\ adminPw = DEFAULT_PW /\ edits = MaxAdminEdits

\* the request completed without a transport error, with a status that is
\* ok and a body that decodes to a non-empty array
Accepted(res) == res.kind = "array" /\ res.items # <<>>

\* C19: a page load issues one request if the store gives no non-empty
\* list and none if it does, no later step of the load issues another, and
\* when the fetch completes its result is taken if and only if it is
\* accepted; every other result leads to the built-in defaults.
C19_SingleBestEffortFetch ==
  /\ [](run.requests <= 1)
  /\ [](run.outcome = "stored" => run.requests = 0)
  /\ [][ /\ IsLoad => run'.requests = IF HasStoredList(lsQuotes) THEN 0 ELSE 1
         /\ (mounted /\ mounted') => run'.requests = run.requests
         /\ \A res \in FetchResults :
              (\E ok \in BOOLEAN, r \in Randoms : FetchDone(res, ok, r))
                => IF Accepted(res)
                     THEN /\ run'.outcome = "remote"
                          /\ quotes' = res.items
                          /\ quote' \in Members(res.items)
                     ELSE /\ run'.outcome = "default"
                          /\ run'.remote = NoRemote
                          /\ quotes' = DEFAULT_QUOTES
                          /\ quote' \in Members(DEFAULT_QUOTES) ]_vars

\* a load that found nothing stored, made its one request and fell back to
\* the defaults, with the panel since used
C19_Witness ==
  /\ mounted /\ run.pc = "done" /\ run.requests = 1
  /\ run.outcome = "default" /\ run.remote = NoRemote
  /\ quotes = DEFAULT_QUOTES /\ adminOpen /\ authStep = "unlocked"

\* C20: while the fetch is pending the displayed quote is empty; the load
\* step that finds a stored list and the step that completes the fetch set
\* it to a member of the list they select; no other step within a page
\* load changes it, the admin handlers and the cast click included; and a
\* cast click made while it is empty calls no channel.
C20_QuoteFixedByResolve ==
  /\ []((mounted /\ run.pc = "fetching") => quote = "")
  /\ []((mounted /\ run.pc = "done") => quote # "")
  /\ []((cast.clicked /\ cast.text = "") => (cast.log = <<>> /\ ~cast.raised))
  /\ [][ /\ (IsLoad /\ HasStoredList(lsQuotes))
             => quote' \in Members(lsQuotes.items)
         /\ (IsLoad /\ ~HasStoredList(lsQuotes)) => quote' = ""
         /\ IsFetchDone => (quote = "" /\ quote' \in Members(quotes'))
         /\ (mounted /\ mounted' /\ ~IsFetchDone) => quote' = quote
         /\ cast'.clicked => cast'.text = quote ]_vars

\* the displayed quote was deleted from the list and is cast all the same
C20_Witness ==
  /\ mounted /\ run.edited /\ quotes = << StoredList[2] >>
  /\ quote = StoredList[1]
  /\ Dispatched /\ cast.text = quote /\ cast.log # <<>>

====
